---- MODULE Spec2Model ----
(***************************************************************************)
(* A model of gravis/debug.py: the recording contexts (DebugContext and    *)
(* the DEBUG_STACK), the activation hooks log_forward / log_backward, the  *)
(* trace filter filter_iterations, the static discovery collect_links,     *)
(* the clustering helpers and DebugContext.create_digraph.                 *)
(***************************************************************************)
EXTENDS Integers, Sequences, FiniteSets, TLC

(***************************************************************************)
(* Bounds of the model.                                                    *)
(***************************************************************************)
\* DebugContext objects constructed by the program.
MaxRecorders == 2
\* Depth of the DEBUG_STACK (nested with-blocks).
MaxDepth == 2
\* Events recorded, over all recorders, in the scope specification.
MaxLog == 2
\* Length of the traces handed to filter_iterations.
MaxTrace == 2

VARIABLES
    DEBUG_STACK,   \* globals.DEBUG_STACK: the recorders of the entered scopes
    iterations,    \* DebugContext.iterations of every constructed recorder
    scopes,        \* the with-blocks that are entered and not yet exited
    failing,       \* an exception is propagating out of a scope body
    lifo,          \* every exit so far left the innermost open with-block
    closed,        \* the recorders whose __exit__ has run
    last,          \* the operation performed last
    items,         \* the argument of filter_iterations
    filtered,      \* the outcome of filter_iterations(items)
    graph,         \* the connections made between the nodes
    digraph,       \* the outcome of the last create_digraph call
    walk           \* collect_links under way: its sets, and the nodes popped

scopeVars == <<DEBUG_STACK, iterations, scopes, failing, lifo, closed, last>>
filterVars == <<items, filtered>>
digraphVars == <<graph, digraph, walk>>
vars == <<scopeVars, filterVars, digraphVars>>

(***************************************************************************)
(* Python values.                                                          *)
(***************************************************************************)
\* The node None: the source of a trace's origin event.
None == 0

\* An absent value of an optional Iteration (past, future) is the empty
\* tuple, a present one the one-element tuple.
NoIteration == <<>>

\* No collect_links under way.
NoWalk ==
    [start |-> None, pass_nodes |-> {}, links |-> {}, coming_nodes |-> {},
     expanded |-> <<>>]

\* A call's outcome: a returned value or a raised exception.
Return(value) == [exc |-> "", ret |-> value]
Raise(exception) == [exc |-> exception, ret |-> <<>>]

(***************************************************************************)
(* The nodes of the externally owned graph (gravis/nodes.py): their class, *)
(* and the attributes the labels read.                                     *)
(***************************************************************************)
NodeClass ==
    <<"Operator", "Subspace", "Input", "Output", "Subspace", "Constant",
      "Operator">>

Nodes == 1..Len(NodeClass)

\* str(node): the class name (the key of SHAPE_MAP), 'None' for None.
str(node) == IF node = None THEN "None" ELSE NodeClass[node]

isinstance(node, class) == node # None /\ NodeClass[node] = class

\* Constant.value as text, and operator.__name__ of an Operator or If.
NodeValue == [n \in Nodes |-> "5"]
NodeOperator == [n \in Nodes |-> "add"]

\* id(obj): the address of a live object, distinct for distinct objects.
Address == <<44, 17, 58, 23, 35, 61, 29>>
id(node) == IF node = None THEN 9 ELSE Address[node]

(***************************************************************************)
(* get_uuid, NodeName and Iteration.                                       *)
(***************************************************************************)
HexDigit == <<"0", "1", "2", "3", "4", "5", "6", "7",
              "8", "9", "a", "b", "c", "d", "e", "f">>

RECURSIVE hex(_)
\* hex(n)[2:], the digits of n to base 16.
hex(n) ==
    IF n < 16 THEN <<HexDigit[n + 1]>>
    ELSE Append(hex(n \div 16), HexDigit[(n % 16) + 1])

\* str.lower() on the strings str(node) yields.
lower(s) ==
    CASE s = "Operator" -> "operator"
      [] s = "Subspace" -> "subspace"
      [] s = "Input" -> "input"
      [] s = "Output" -> "output"
      [] s = "Constant" -> "constant"
      [] s = "If" -> "if"
      [] s = "None" -> "none"
      [] OTHER -> s

\* '{}_{}'.format(prefix, hex(id(node))[2:]); an empty prefix is replaced
\* by str(node).lower().
get_uuid(node, prefix) ==
    LET p == IF prefix = "" THEN lower(str(node)) ELSE prefix
    IN  <<p, "_", hex(id(node))>>

Forward == "forward"
Backward == "backward"
Direction == {Forward, Backward}

\* NodeName.OPERATOR_MAP.get(value, value)
resolve_operator(value) ==
    CASE value = "le" -> "<="
      [] value = "add" -> "+"
      [] value = "sub" -> "-"
      [] OTHER -> value

\* NodeName.create(node)
create(node) ==
    LET label ==
            IF isinstance(node, "Input") THEN "I"
            ELSE IF isinstance(node, "Output") THEN "O"
            ELSE IF isinstance(node, "Constant") THEN NodeValue[node]
            ELSE IF isinstance(node, "If")
                 THEN resolve_operator(NodeOperator[node])
            ELSE IF isinstance(node, "Operator")
                 THEN resolve_operator(NodeOperator[node])
            ELSE str(node)
    IN  [label |-> label, id |-> get_uuid(node, ""), node |-> node]

\* The NodeName of every node, and of None.
NodeNames == [node \in Nodes \cup {None} |-> create(node)]

NodeName(node) == NodeNames[node]

\* NodeName.shape
shape(node_name) ==
    LET s == str(node_name.node)
    IN  CASE s = "Input" -> "square"
          [] s = "Output" -> "square"
          [] s = "Constant" -> "circle"
          [] s = "If" -> "diamond"
          [] s = "Operator" -> "diamond"
          [] OTHER -> "box"

Iteration(src, dst, args, direction) ==
    [src |-> src, dst |-> dst, args |-> args, direction |-> direction]

(***************************************************************************)
(* Recording contexts: globals.DEBUG_STACK, DebugContext.__enter__ and     *)
(* __exit__, and the hooks log_forward and log_backward.                   *)
(***************************************************************************)
Recorders == 1..MaxRecorders

\* No recorder: what current_debug() yields on an empty DEBUG_STACK.
NoDebug == 0

\* globals.current_debug(): the recorder on top of the stack, if any.
current_debug ==
    IF DEBUG_STACK = <<>> THEN NoDebug ELSE DEBUG_STACK[Len(DEBUG_STACK)]

\* DebugContext.__init__ for every recorder, and an empty stack.
InitScopes ==
    /\ DEBUG_STACK = <<>>
    /\ iterations = [d \in Recorders |-> <<>>]
    /\ scopes = <<>>
    /\ failing = FALSE
    /\ lifo = TRUE
    /\ closed = {}
    /\ last = "init"

RECURSIVE SumLen(_, _)
SumLen(f, S) ==
    IF S = {} THEN 0
    ELSE LET d == CHOOSE x \in S : TRUE
         IN  Len(f[d]) + SumLen(f, S \ {d})

\* The events recorded so far, over all recorders.
Logged == SumLen(iterations, Recorders)

\* What the activation hooks are called with in the scope specification.
LogNodes == {1}
LogSources == {None}
LogValues == {<<>>}

\* A plausible slip of log_forward: with no recorder active the event
\* goes to the first recorder.
log_forward_unguarded(self, values, src_node) ==
    /\ ~failing
    /\ Logged < MaxLog
    /\ LET debug == IF current_debug = NoDebug THEN 1 ELSE current_debug
       IN  iterations' =
               [iterations EXCEPT ![debug] =
                   Append(@, Iteration(NodeName(src_node), NodeName(self),
                                       values, Forward))]
    /\ last' = "log_forward"
    /\ UNCHANGED <<DEBUG_STACK, scopes, failing, lifo, closed, filterVars, digraphVars>>

\* log_forward(self, *args) with args = values + (src_node,)
log_forward(self, values, src_node) ==
    /\ ~failing
    /\ Logged < MaxLog
    /\ LET debug == current_debug
       IN  IF debug # NoDebug
           THEN iterations' =
                    [iterations EXCEPT ![debug] =
                        Append(@, Iteration(NodeName(src_node), NodeName(self),
                                            values, Forward))]
           ELSE UNCHANGED iterations
    /\ last' = "log_forward"
    /\ UNCHANGED <<DEBUG_STACK, scopes, failing, lifo, closed, filterVars, digraphVars>>

\* log_backward(self, *args) with args = values + (src_node,)
log_backward(self, values, src_node) ==
    /\ ~failing
    /\ Logged < MaxLog
    /\ LET debug == current_debug
       IN  IF debug # NoDebug
           THEN iterations' =
                    [iterations EXCEPT ![debug] =
                        Append(@, Iteration(NodeName(src_node), NodeName(self),
                                            values, Backward))]
           ELSE UNCHANGED iterations
    /\ last' = "log_backward"
    /\ UNCHANGED <<DEBUG_STACK, scopes, failing, lifo, closed, filterVars, digraphVars>>

\* DebugContext.__enter__: a with-block (or a decorated call) is entered.
\* The with-block remembers its recorder and the recorder current before.
enter(self) ==
    /\ ~failing
    /\ Len(DEBUG_STACK) < MaxDepth
    /\ DEBUG_STACK' = Append(DEBUG_STACK, self)
    /\ scopes' = Append(scopes, [ctx |-> self, before |-> current_debug])
    /\ last' = "enter"
    /\ UNCHANGED <<iterations, failing, lifo, closed, filterVars, digraphVars>>

\* A plausible slip of __exit__: the pop is skipped when the body failed.
exit_unless_failed(i, exc) ==
    /\ i \in 1..Len(scopes)
    /\ exc = failing
    /\ failing => i = Len(scopes)
    /\ DEBUG_STACK' = IF exc THEN DEBUG_STACK
                      ELSE SubSeq(DEBUG_STACK, 1, Len(DEBUG_STACK) - 1)
    /\ scopes' = [k \in 1..(Len(scopes) - 1) |->
                     IF k < i THEN scopes[k] ELSE scopes[k + 1]]
    /\ lifo' = (lifo /\ i = Len(scopes))
    /\ closed' = closed \cup {scopes[i].ctx}
    /\ last' = "exit"
    /\ UNCHANGED <<iterations, failing, filterVars, digraphVars>>

\* DebugContext.__exit__(*exc) of the i-th open with-block: pops the stack
\* whatever exc is and returns None, so a propagating exception goes on.
\* An exception unwinds the innermost with-block first.
exit(i, exc) ==
    /\ i \in 1..Len(scopes)
    /\ exc = failing
    /\ failing => i = Len(scopes)
    /\ DEBUG_STACK' = SubSeq(DEBUG_STACK, 1, Len(DEBUG_STACK) - 1)
    /\ scopes' = [k \in 1..(Len(scopes) - 1) |->
                     IF k < i THEN scopes[k] ELSE scopes[k + 1]]
    /\ lifo' = (lifo /\ i = Len(scopes))
    /\ closed' = closed \cup {scopes[i].ctx}
    /\ last' = "exit"
    /\ UNCHANGED <<iterations, failing, filterVars, digraphVars>>

\* The body of an open with-block raises.
BodyFails ==
    /\ ~failing
    /\ scopes # <<>>
    /\ failing' = TRUE
    /\ last' = "raise"
    /\ UNCHANGED <<DEBUG_STACK, iterations, scopes, lifo, closed, filterVars, digraphVars>>

\* The exception is caught by a handler around the with-blocks unwound.
Caught ==
    /\ failing
    /\ failing' = FALSE
    /\ last' = "except"
    /\ UNCHANGED <<DEBUG_STACK, iterations, scopes, lifo, closed, filterVars, digraphVars>>

Init ==
    /\ InitScopes
    /\ items = <<>>
    /\ filtered = Return(<<>>)
    /\ graph = {}
    /\ digraph = Return(<<>>)
    /\ walk = NoWalk

Next ==
    \/ \E d \in Recorders : enter(d)
    \/ \E i \in 1..MaxDepth, exc \in BOOLEAN : exit(i, exc)
    \/ \E n \in LogNodes, v \in LogValues, s \in LogSources : log_forward(n, v, s)
    \/ \E n \in LogNodes, v \in LogValues, s \in LogSources : log_backward(n, v, s)
    \/ BodyFails
    \/ Caught

Spec == Init /\ [][Next]_vars

(***************************************************************************)
(* Properties of the recording contexts.                                   *)
(***************************************************************************)
OnStack == {DEBUG_STACK[i] : i \in 1..Len(DEBUG_STACK)}

BelowTop == {DEBUG_STACK[i] : i \in 1..(Len(DEBUG_STACK) - 1)}

IsAppend(old, new) == Len(new) = Len(old) + 1 /\ SubSeq(new, 1, Len(old)) = old

LogStep ==
    \E n \in LogNodes, v \in LogValues, s \in LogSources :
        log_forward(n, v, s) \/ log_backward(n, v, s)

\* C4: an event is appended only to the recorder on top of the
\* scope stack, and the recorders below the top, those of the enclosing
\* scopes, are unchanged by every step.
C4_BelowTopUnchanged ==
    [][ /\ \A d \in Recorders :
              iterations'[d] # iterations[d] =>
                  d = current_debug /\ IsAppend(iterations[d], iterations'[d])
        /\ \A d \in BelowTop : iterations'[d] = iterations[d] ]_vars

\* C5: while scopes are exited in the reverse of the order they were
\* entered, the exit of the innermost with-block, after a normal or a failed
\* body, removes exactly its recorder from the stack, and the current
\* recorder becomes the one that was current before the matching enter.
C5_LifoExitRestores ==
    [][ \A exc \in BOOLEAN :
            (lifo /\ scopes # <<>> /\ exit(Len(scopes), exc)) =>
                /\ DEBUG_STACK[Len(DEBUG_STACK)] = scopes[Len(scopes)].ctx
                /\ DEBUG_STACK' = SubSeq(DEBUG_STACK, 1, Len(DEBUG_STACK) - 1)
                /\ current_debug' = scopes[Len(scopes)].before
                /\ \A k \in 1..Len(scopes') : DEBUG_STACK'[k] = scopes'[k].ctx ]_vars

\* A nested scope whose body failed has been exited, the exception still
\* propagating, and the enclosing scope is open.
C5_Witness ==
    /\ last = "exit"
    /\ failing
    /\ lifo
    /\ Len(scopes) = 1
    /\ DEBUG_STACK = <<scopes[1].ctx>>
    /\ closed # {}

\* C6: once __exit__ has run for a recorder, no later step
\* changes its trace.
C6_FrozenAfterExit ==
    [][ \A d \in closed : iterations'[d] = iterations[d] ]_vars

\* C7: with an empty scope stack a forward or backward activation changes
\* no recorder's trace and leaves the stack empty.
C7_NoRecorderNoOp ==
    [][ (DEBUG_STACK = <<>> /\ LogStep) =>
            /\ iterations' = iterations
            /\ DEBUG_STACK' = <<>> ]_vars

\* A hook has run while no recorder was active, after a scope that did
\* record has closed.
C7_Witness ==
    /\ last \in {"log_forward", "log_backward"}
    /\ DEBUG_STACK = <<>>
    /\ \E d \in Recorders : iterations[d] # <<>>

(***************************************************************************)
(* The trace filter: around_generator and filter_iterations.               *)
(***************************************************************************)
\* around_generator(items): one window (past, current, future) per item;
\* past and future are absent at the ends.
around_generator(list) ==
    [i \in 1..Len(list) |->
        [past |-> IF i = 1 THEN NoIteration ELSE <<list[i - 1]>>,
         current |-> list[i],
         future |-> IF i = Len(list) THEN NoIteration ELSE <<list[i + 1]>>]]

\* A plausible slip of the loop body: the bridge after an Output is made
\* whatever the source of the following event is.
filter_window_any_future(w) ==
    LET current == w.current
        future == w.future
    IN  IF current.src.node = None THEN Return(<<>>)
        ELSE IF current.direction = Forward
        THEN IF isinstance(current.dst.node, "Subspace") THEN Return(<<>>)
             ELSE IF isinstance(current.src.node, "Subspace") THEN Return(<<>>)
             ELSE IF /\ isinstance(current.dst.node, "Output")
                     /\ future # NoIteration
                  THEN Return(<<current,
                                Iteration(current.dst, future[1].dst,
                                          current.args, Forward)>>)
             ELSE Return(<<current>>)
        ELSE IF isinstance(current.dst.node, "Subspace")
             THEN IF future = NoIteration
                  THEN Raise("AttributeError")
                  ELSE Return(<<Iteration(current.src, future[1].dst,
                                          current.args, Backward)>>)
             ELSE IF isinstance(current.src.node, "Subspace") THEN Return(<<>>)
             ELSE Return(<<current>>)

\* A plausible slip of the loop body: the synthesized forward event starts
\* at the source of the current event, not at its destination.
filter_window_bridge_from_src(w) ==
    LET current == w.current
        future == w.future
    IN  IF current.src.node = None THEN Return(<<>>)
        ELSE IF current.direction = Forward
        THEN IF isinstance(current.dst.node, "Subspace") THEN Return(<<>>)
             ELSE IF isinstance(current.src.node, "Subspace") THEN Return(<<>>)
             ELSE IF /\ isinstance(current.dst.node, "Output")
                     /\ future # NoIteration
                     /\ isinstance(future[1].src.node, "Subspace")
                  THEN Return(<<current,
                                Iteration(current.src, future[1].dst,
                                          current.args, Forward)>>)
             ELSE Return(<<current>>)
        ELSE IF isinstance(current.dst.node, "Subspace")
             THEN IF future = NoIteration
                  THEN Raise("AttributeError")
                  ELSE Return(<<Iteration(current.src, future[1].dst,
                                          current.args, Backward)>>)
             ELSE IF isinstance(current.src.node, "Subspace") THEN Return(<<>>)
             ELSE Return(<<current>>)

\* A plausible slip of the loop body: in the backward branch the test of
\* the source comes first, and a backward event from a Subspace into a
\* Subspace is dropped.
filter_window_backward_src_first(w) ==
    LET current == w.current
        future == w.future
    IN  IF current.src.node = None THEN Return(<<>>)
        ELSE IF current.direction = Forward
        THEN IF isinstance(current.dst.node, "Subspace") THEN Return(<<>>)
             ELSE IF isinstance(current.src.node, "Subspace") THEN Return(<<>>)
             ELSE IF /\ isinstance(current.dst.node, "Output")
                     /\ future # NoIteration
                     /\ isinstance(future[1].src.node, "Subspace")
                  THEN Return(<<current,
                                Iteration(current.dst, future[1].dst,
                                          current.args, Forward)>>)
             ELSE Return(<<current>>)
        ELSE IF isinstance(current.src.node, "Subspace") THEN Return(<<>>)
             ELSE IF isinstance(current.dst.node, "Subspace")
             THEN IF future = NoIteration
                  THEN Raise("AttributeError")
                  ELSE Return(<<Iteration(current.src, future[1].dst,
                                          current.args, Backward)>>)
             ELSE Return(<<current>>)

\* The body of filter_iterations' loop for one window: the events it
\* appends to the filtered list, or the exception it raises (future.dst
\* with future None).
filter_window(w) ==
    LET current == w.current
        future == w.future
    IN  IF current.src.node = None THEN Return(<<>>)
        ELSE IF current.direction = Forward
        THEN IF isinstance(current.dst.node, "Subspace") THEN Return(<<>>)
             ELSE IF isinstance(current.src.node, "Subspace") THEN Return(<<>>)
             ELSE IF /\ isinstance(current.dst.node, "Output")
                     /\ future # NoIteration
                     /\ isinstance(future[1].src.node, "Subspace")
                  THEN Return(<<current,
                                Iteration(current.dst, future[1].dst,
                                          current.args, Forward)>>)
             ELSE Return(<<current>>)
        ELSE IF isinstance(current.dst.node, "Subspace")
             THEN IF future = NoIteration
                  THEN Raise("AttributeError")
                  ELSE Return(<<Iteration(current.src, future[1].dst,
                                          current.args, Backward)>>)
             ELSE IF isinstance(current.src.node, "Subspace") THEN Return(<<>>)
             ELSE Return(<<current>>)

RECURSIVE filter_loop(_, _, _)
\* The loop of filter_iterations from window i on, acc the filtered list
\* so far.
filter_loop(windows, i, acc) ==
    IF i > Len(windows) THEN Return(acc)
    ELSE LET r == filter_window(windows[i])
         IN  IF r.exc # "" THEN r
             ELSE filter_loop(windows, i + 1, acc \o r.ret)

\* filter_iterations(iterations)
filter_iterations(list) == filter_loop(around_generator(list), 1, <<>>)

(***************************************************************************)
(* The filter applied to every trace of at most MaxTrace events.           *)
(***************************************************************************)
\* An Operator, a Subspace and an Output, and None as a source.
FilterNodes == {1, 2, 4}
FilterArgs == {<<>>, <<5>>}

FilterEvents ==
    {Iteration(NodeName(s), NodeName(d), a, dir) :
        s \in FilterNodes \cup {None}, d \in FilterNodes,
        a \in FilterArgs, dir \in Direction}

Traces(events, n) == UNION {[1..k -> events] : k \in 0..n}

InitFilter ==
    /\ InitScopes
    /\ items \in Traces(FilterEvents, MaxTrace)
    /\ filtered = Return(<<>>)
    /\ graph = {}
    /\ digraph = Return(<<>>)
    /\ walk = NoWalk

Filter ==
    /\ last = "init"
    /\ filtered' = filter_iterations(items)
    /\ last' = "filter_iterations"
    /\ UNCHANGED <<DEBUG_STACK, iterations, scopes, failing, lifo, closed, items, digraphVars>>

NextFilter == Filter

SpecFilter == InitFilter /\ [][NextFilter]_vars

IsSubspaceEnd(e) ==
    isinstance(e.src.node, "Subspace") \/ isinstance(e.dst.node, "Subspace")

HasSource(e) == e.src.node # None

\* C1: the list filter_iterations returns holds no event whose src or dst
\* is a Subspace node, the events made from future.dst included.
C1_NoSubspaceInFiltered ==
    (last = "filter_iterations" /\ filtered.exc = "") =>
        \A k \in 1..Len(filtered.ret) : ~IsSubspaceEnd(filtered.ret[k])

\* C3: when the last event of the trace is a backward event into a
\* Subspace, filtering completes normally and the event is dropped: the
\* result is what the windows before the last one have appended.
C3_LastBackwardSubspaceDropped ==
    ( /\ last = "filter_iterations"
      /\ items # <<>>
      /\ items[Len(items)].direction = Backward
      /\ items[Len(items)].src.node # None
      /\ isinstance(items[Len(items)].dst.node, "Subspace") ) =>
        /\ filtered.exc = ""
        /\ filtered =
              filter_loop(SubSeq(around_generator(items), 1, Len(items) - 1),
                          1, <<>>)

\* C8: a trace with no Subspace endpoint is filtered to exactly its events
\* with a source, unchanged and in order.
C8_IdentityWithoutSubspace ==
    ( /\ last = "filter_iterations"
      /\ \A k \in 1..Len(items) : ~IsSubspaceEnd(items[k]) ) =>
        filtered = Return(SelectSeq(items, HasSource))

\* A Subspace-free trace has been filtered that holds a forward event into
\* an Output with a following event, and an origin event.
C8_Witness ==
    /\ last = "filter_iterations"
    /\ \A k \in 1..Len(items) : ~IsSubspaceEnd(items[k])
    /\ Len(items) >= 2
    /\ items[1].direction = Forward
    /\ items[1].src.node # None
    /\ isinstance(items[1].dst.node, "Output")
    /\ items[2].src.node = None
    /\ Len(filtered.ret) = 1

(***************************************************************************)
(* The graph: the links of the nodes (Node.in_nodes, Node.out_nodes) and   *)
(* the enclosing Subspace of each node (Node.subspace).                    *)
(***************************************************************************)
\* The connections a graph may hold, in the order they are made; a
\* connection <<a, b>> puts b on a.out_nodes and a on b.in_nodes.
Connections ==
    << <<1, 2>>, <<2, 3>>, <<3, 4>>, <<4, 3>>, <<1, 6>>, <<4, 1>>,
       <<3, 7>>, <<7, 4>> >>

\* The chain Operator -> Subspace -> Input -> Output.
BaseConnections == {<<1, 2>>, <<2, 3>>, <<3, 4>>}

\* The graphs considered: the chain; the chain with the Output linked back
\* to the Input; with the Operator linked to the Constant; with the Output
\* linked to the Operator; a graph whose Input and Output are not linked,
\* the Operator being linked to the Constant; the chain with the Input
\* linked to the inner Operator as well; and that graph with the inner
\* Operator linked on to the Output.
Graphs ==
    {BaseConnections,
     BaseConnections \cup {<<4, 3>>},
     BaseConnections \cup {<<1, 6>>},
     BaseConnections \cup {<<4, 1>>},
     {<<1, 2>>, <<2, 3>>, <<1, 6>>},
     BaseConnections \cup {<<3, 7>>},
     BaseConnections \cup {<<3, 7>>, <<7, 4>>}}

RECURSIVE MapSeq(_, _)
\* The k-th components of a sequence of pairs.
MapSeq(list, k) ==
    IF list = <<>> THEN <<>>
    ELSE <<list[1][k]>> \o MapSeq(Tail(list), k)

\* node.out_nodes and node.in_nodes in every graph: lists, in the order the
\* connections were made.
OutNodes ==
    [g \in Graphs |->
        [node \in Nodes |->
            LET From(c) == c \in g /\ c[1] = node
            IN  MapSeq(SelectSeq(Connections, From), 2)]]

InNodes ==
    [g \in Graphs |->
        [node \in Nodes |->
            LET To(c) == c \in g /\ c[2] = node
            IN  MapSeq(SelectSeq(Connections, To), 1)]]

out_nodes(node) == OutNodes[graph][node]

in_nodes(node) == InNodes[graph][node]

\* node.subspace: the enclosing Subspace, None at the root.  The Input, the
\* Output, the inner Subspace and the inner Operator are in Subspace 2, the
\* Constant in the inner Subspace 5.
NodeSubspace == <<None, None, 2, 2, 2, 5, 2>>
subspace(node) == IF node = None THEN None ELSE NodeSubspace[node]

ToSet(list) == {list[k] : k \in 1..Len(list)}

(***************************************************************************)
(* Iteration over a Python set.  The order is that of the hash table: one  *)
(* ranking of the objects per run, which no statement of the code fixes.   *)
(***************************************************************************)
\* The rankings considered: by address, ascending and descending.
HashOrders == {"ascending", "descending"}

rank(order, node) == IF order = "ascending" THEN id(node) ELSE 100 - id(node)

RECURSIVE SortBy(_, _)
\* The elements of S in increasing key[x].
SortBy(S, key) ==
    IF S = {} THEN <<>>
    ELSE LET x == CHOOSE y \in S : \A z \in S : key[y] <= key[z]
         IN  <<x>> \o SortBy(S \ {x}, key)

\* All nodes, all NodeNames and all pairs of NodeNames in each ranking.
AllNames == {NodeNames[n] : n \in Nodes \cup {None}}

NodesInOrder ==
    [order \in HashOrders |->
        SortBy(Nodes \cup {None},
               [n \in Nodes \cup {None} |-> rank(order, n)])]

NamesInOrder ==
    [order \in HashOrders |->
        SortBy(AllNames, [n \in AllNames |-> rank(order, n.node)])]

PairsInOrder ==
    [order \in HashOrders |->
        SortBy(AllNames \X AllNames,
               [q \in AllNames \X AllNames |->
                   100 * rank(order, q[1].node) + rank(order, q[2].node)])]

\* iter(S) for a set of nodes, of NodeNames, of pairs of NodeNames: its
\* elements as the ranking has them.
IterNodes(S, order) == LET In(x) == x \in S IN SelectSeq(NodesInOrder[order], In)

IterNames(S, order) == LET In(x) == x \in S IN SelectSeq(NamesInOrder[order], In)

IterPairs(S, order) == LET In(x) == x \in S IN SelectSeq(PairsInOrder[order], In)

(***************************************************************************)
(* collect_links                                                           *)
(***************************************************************************)
\* The pair collect_links records for current and other.
canonical(current, other) ==
    IF id(current) > id(other) THEN <<current, other>> ELSE <<other, current>>

\* A plausible slip: the 'continue' for a Subspace comes before its
\* neighbours are put on coming_nodes.
collect_links_body_stop_at_subspace(pass_nodes, links, coming_nodes, current) ==
    LET passed == pass_nodes \cup {current}
        linked_nodes ==
            ToSet(in_nodes(current) \o out_nodes(current)) \ passed
    IN  IF isinstance(current, "Subspace")
        THEN [pass_nodes |-> passed, links |-> links,
              coming_nodes |-> coming_nodes \ {current}]
        ELSE [pass_nodes |-> passed,
              links |-> links \cup {canonical(current, other) :
                                       other \in {o \in linked_nodes :
                                                     ~isinstance(o, "Subspace")}},
              coming_nodes |-> (coming_nodes \ {current}) \cup linked_nodes]

\* A plausible slip: the test of the other end's class is left out.
collect_links_body_any_other(pass_nodes, links, coming_nodes, current) ==
    LET passed == pass_nodes \cup {current}
        linked_nodes ==
            ToSet(in_nodes(current) \o out_nodes(current)) \ passed
        coming == (coming_nodes \ {current}) \cup linked_nodes
    IN  IF isinstance(current, "Subspace")
        THEN [pass_nodes |-> passed, links |-> links, coming_nodes |-> coming]
        ELSE [pass_nodes |-> passed,
              links |-> links \cup {canonical(current, other) :
                                       other \in linked_nodes},
              coming_nodes |-> coming]

\* One pass of the while loop of collect_links, current being the node
\* coming_nodes.pop() has taken: the three sets after the pass.
collect_links_body(pass_nodes, links, coming_nodes, current) ==
    LET passed == pass_nodes \cup {current}
        linked_nodes ==
            ToSet(in_nodes(current) \o out_nodes(current)) \ passed
        coming == (coming_nodes \ {current}) \cup linked_nodes
    IN  IF isinstance(current, "Subspace")
        THEN [pass_nodes |-> passed, links |-> links, coming_nodes |-> coming]
        ELSE [pass_nodes |-> passed,
              links |-> links \cup {canonical(current, other) :
                                       other \in {o \in linked_nodes :
                                                     ~isinstance(o, "Subspace")}},
              coming_nodes |-> coming]

RECURSIVE collect_links_loop(_, _, _, _)
\* The while loop of collect_links; coming_nodes.pop() takes the first
\* node in the set's order.
collect_links_loop(pass_nodes, links, coming_nodes, order) ==
    IF coming_nodes = {} THEN [links |-> links, pass_nodes |-> pass_nodes]
    ELSE LET after == collect_links_body(pass_nodes, links, coming_nodes,
                                         IterNodes(coming_nodes, order)[1])
         IN  collect_links_loop(after.pass_nodes, after.links,
                                after.coming_nodes, order)

\* collect_links(start_node)
collect_links(start_node, order) ==
    collect_links_loop({}, {}, {start_node}, order)

(***************************************************************************)
(* collect_levels and write_rank.  A level_map is the list of its entries  *)
(* [level, nodes] in the order the levels were first used (the order of    *)
(* the defaultdict).                                                       *)
(***************************************************************************)
LevelNodes(level_map, level) ==
    UNION {level_map[k].nodes : k \in {j \in 1..Len(level_map) :
                                          level_map[j].level = level}}

LevelAdd(level_map, level, node) ==
    IF \E k \in 1..Len(level_map) : level_map[k].level = level
    THEN [k \in 1..Len(level_map) |->
             IF level_map[k].level = level
             THEN [level |-> level, nodes |-> level_map[k].nodes \cup {node}]
             ELSE level_map[k]]
    ELSE Append(level_map, [level |-> level, nodes |-> {node}])

RECURSIVE collect_levels(_, _, _, _)
RECURSIVE collect_levels_each(_, _, _, _)
\* collect_levels(node, level_map, all_nodes, level): the level_map it
\* leaves, or RecursionError.  The recursion is unbounded exactly when some
\* member gets two levels, and then, and only then, a member is reached at
\* a level of magnitude Cardinality(all_nodes): the interpreter's
\* recursion limit is met on the way.
collect_levels(node, level_map, all_nodes, level) ==
    IF node \notin all_nodes THEN Return(level_map)
    ELSE IF node \in LevelNodes(level_map, level) THEN Return(level_map)
    ELSE IF level >= Cardinality(all_nodes) \/ -level >= Cardinality(all_nodes)
    THEN Raise("RecursionError")
    ELSE LET outs == collect_levels_each(out_nodes(node),
                                         LevelAdd(level_map, level, node),
                                         all_nodes, level + 1)
         IN  IF outs.exc # "" THEN outs
             ELSE collect_levels_each(in_nodes(node), outs.ret,
                                      all_nodes, level - 1)

\* One of the two for loops of collect_levels, over a list of nodes.
collect_levels_each(list, level_map, all_nodes, level) ==
    IF list = <<>> THEN Return(level_map)
    ELSE LET r == collect_levels(Head(list), level_map, all_nodes, level)
         IN  IF r.exc # "" THEN r
             ELSE collect_levels_each(Tail(list), r.ret, all_nodes, level)

RECURSIVE uuids(_)
\* get_uuid(node) for the nodes of a list.
uuids(list) ==
    IF list = <<>> THEN <<>>
    ELSE <<get_uuid(Head(list), "")>> \o uuids(Tail(list))

RECURSIVE write_rank(_, _)
\* write_rank(stream, level_map): the lines written.
write_rank(level_map, order) ==
    IF level_map = <<>> THEN <<>>
    ELSE (IF Cardinality(Head(level_map).nodes) > 1
          THEN << <<"rank=same", uuids(IterNodes(Head(level_map).nodes, order))>> >>
          ELSE <<>>)
         \o write_rank(Tail(level_map), order)

(***************************************************************************)
(* get_subspace_map and write_subspaces.                                   *)
(***************************************************************************)
\* get_subspace_map(node_names): the two defaultdicts, a missing key being
\* the empty set.
get_subspace_map(node_names) ==
    LET inside == {n \in node_names : subspace(n.node) # None}
    IN  [subspace_nodes |->
             [k \in Nodes |-> {n.node : n \in {m \in inside : subspace(m.node) = k}}],
         subspace_children |->
             [k \in Nodes \cup {None} |->
                 {subspace(n.node) :
                     n \in {m \in inside : subspace(subspace(m.node)) = k}}]]

RECURSIVE member_lines(_)
member_lines(list) ==
    IF list = <<>> THEN <<>>
    ELSE << <<"member", get_uuid(Head(list), "")>> >> \o member_lines(Tail(list))

RECURSIVE last_input(_, _)
\* start_node after the loop over the members: the Input met last.
last_input(list, start_node) ==
    IF list = <<>> THEN start_node
    ELSE last_input(Tail(list),
                    IF isinstance(Head(list), "Input") THEN Head(list)
                    ELSE start_node)

RECURSIVE write_subspaces(_, _, _, _)
\* write_subspaces(stream, subspaces, subspace_nodes, subspace_children),
\* subspaces given as the list the for loop goes through: the lines
\* written, or the exception of collect_levels.
write_subspaces(subspaces, subspace_nodes, subspace_children, order) ==
    IF subspaces = <<>> THEN Return(<<>>)
    ELSE LET sub == Head(subspaces)
             members == IterNodes(subspace_nodes[sub], order)
             start_node == last_input(members, None)
             levels == collect_levels(start_node, <<>>, subspace_nodes[sub], 0)
         IN  IF levels.exc # "" THEN levels
             ELSE LET inner == write_subspaces(
                                   IterNodes(subspace_children[sub], order),
                                   subspace_nodes, subspace_children, order)
                  IN  IF inner.exc # "" THEN inner
                      ELSE LET rest == write_subspaces(Tail(subspaces),
                                           subspace_nodes, subspace_children,
                                           order)
                           IN  IF rest.exc # "" THEN rest
                               ELSE Return(
                                   << <<"subgraph", get_uuid(sub, "cluster")>> >>
                                   \o member_lines(members)
                                   \o write_rank(levels.ret, order)
                                   \o inner.ret
                                   \o << <<"}">> >>
                                   \o rest.ret)

(***************************************************************************)
(* Iteration.render and DebugContext.create_digraph.  The document is the  *)
(* list of the lines written to the stream.                                *)
(***************************************************************************)
RECURSIVE str_int(_)
\* str(arg) of a natural number: its decimal digits.
str_int(n) ==
    IF n < 10 THEN <<HexDigit[n + 1]>>
    ELSE Append(str_int(n \div 10), HexDigit[(n % 10) + 1])

RECURSIVE label_args(_)
\* Iteration.label_args: the str() of the args, to be joined by ', '.
label_args(args) ==
    IF args = <<>> THEN <<>>
    ELSE <<str_int(Head(args))>> \o label_args(Tail(args))

style(iteration) == IF iteration.direction = Forward THEN "solid" ELSE "dotted"

\* Iteration.render(step)
render(iteration, step) ==
    <<"edge", iteration.src.id, iteration.dst.id,
      IF label_args(iteration.args) # <<>>
      THEN <<str_int(step), label_args(iteration.args)>>
      ELSE <<str_int(step)>>,
      style(iteration)>>

\* A plausible slip: the pair is built the other way round than
\* collect_links builds it.
activated_links_reversed(list) ==
    {IF id(list[k].src.node) < id(list[k].dst.node)
     THEN <<list[k].src.node, list[k].dst.node>>
     ELSE <<list[k].dst.node, list[k].src.node>> : k \in 1..Len(list)}

\* activated_links of create_digraph, from the filtered iterations.
activated_links(list) ==
    {IF id(list[k].src.node) > id(list[k].dst.node)
     THEN <<list[k].src.node, list[k].dst.node>>
     ELSE <<list[k].dst.node, list[k].src.node>> : k \in 1..Len(list)}

\* pass_links of create_digraph, as pairs of NodeNames.
pass_links(all_links, list) ==
    {<<NodeName(q[1]), NodeName(q[2])>> : q \in all_links \ activated_links(list)}

\* A plausible slip: the ends of the passive links are not added.
all_node_names_of_events(list, passive) ==
    {list[k].src : k \in 1..Len(list)} \cup {list[k].dst : k \in 1..Len(list)}

\* all_node_names of create_digraph.
all_node_names(list, passive) ==
    {list[k].src : k \in 1..Len(list)} \cup {list[k].dst : k \in 1..Len(list)}
        \cup {q[1] : q \in passive} \cup {q[2] : q \in passive}

RECURSIVE render_lines(_, _)
render_lines(list, step) ==
    IF list = <<>> THEN <<>>
    ELSE <<render(Head(list), step)>> \o render_lines(Tail(list), step + 1)

RECURSIVE pass_lines(_)
pass_lines(list) ==
    IF list = <<>> THEN <<>>
    ELSE << <<"arrowhead=none", Head(list)[1].id, Head(list)[2].id>> >>
         \o pass_lines(Tail(list))

RECURSIVE node_lines(_)
node_lines(list) ==
    IF list = <<>> THEN <<>>
    ELSE << <<"node", Head(list).id, Head(list).label, shape(Head(list))>> >>
         \o node_lines(Tail(list))

Header == << <<"digraph {">>, <<"newrank = true;">> >>
Footer == << <<"}">> >>

\* The statements of create_digraph under 'if self.iterations:': the lines
\* written between the header and the closing brace, or the exception
\* raised.
digraph_body(self, order) ==
    LET f == filter_iterations(iterations[self])
    IN  IF f.exc # "" THEN f
        ELSE IF f.ret = <<>> THEN Raise("IndexError")
        ELSE LET start_node == f.ret[1].src.node
                 found == collect_links(start_node, order)
                 passive == pass_links(found.links, f.ret)
                 names == all_node_names(f.ret, passive)
                 map == get_subspace_map(names)
                 clusters == write_subspaces(
                                 IterNodes(map.subspace_children[None], order),
                                 map.subspace_nodes, map.subspace_children,
                                 order)
             IN  IF clusters.exc # "" THEN clusters
                 ELSE Return(render_lines(f.ret, 1)
                             \o pass_lines(IterPairs(passive, order))
                             \o node_lines(IterNames(names, order))
                             \o clusters.ret)

\* A plausible slip: the test of self.iterations is left out.
create_digraph_unguarded(self, order) ==
    LET body == digraph_body(self, order)
    IN  IF body.exc # "" THEN body
        ELSE Return(Header \o body.ret \o Footer)

\* DebugContext.create_digraph(self): the document returned or the
\* exception raised, for one order of set iteration.
create_digraph(self, order) ==
    IF iterations[self] = <<>> THEN Return(Header \o Footer)
    ELSE LET body == digraph_body(self, order)
         IN  IF body.exc # "" THEN body
             ELSE Return(Header \o body.ret \o Footer)

(***************************************************************************)
(* create_digraph called, any number of times, on a recorder that holds a  *)
(* trace of at most MaxTrace events over a graph, after its scope has      *)
(* closed or while it is open.                                             *)
(***************************************************************************)
\* The nodes the recorded events are about: the Operator, the outer
\* Subspace and the Output.  An event goes from a node, or from no node, to
\* another node; forward events carry a value, backward events none.
DigraphNodes == {1, 2, 4}

DigraphEvents ==
    {Iteration(NodeName(q[1]), NodeName(q[2]),
               IF dir = Forward THEN <<5>> ELSE <<>>, dir) :
        q \in {p \in (DigraphNodes \cup {None}) \X DigraphNodes : p[1] # p[2]},
        dir \in Direction}

InitDigraph ==
    /\ \/ /\ DEBUG_STACK = <<>>
          /\ scopes = <<>>
          /\ closed = {1}
          /\ last = "exit"
       \/ /\ DEBUG_STACK = <<1>>
          /\ scopes = <<[ctx |-> 1, before |-> NoDebug]>>
          /\ closed = {}
          /\ last = "log_forward"
    /\ failing = FALSE
    /\ lifo = TRUE
    /\ \E trace \in Traces(DigraphEvents, MaxTrace) :
           iterations = [d \in Recorders |-> IF d = 1 THEN trace ELSE <<>>]
    /\ items = <<>>
    /\ filtered = Return(<<>>)
    /\ graph \in Graphs
    /\ digraph = Return(<<>>)
    /\ walk = NoWalk

\* A plausible slip: the filtered list is stored back into the recorder.
CreateDigraph_in_place(order) ==
    /\ digraph' = create_digraph(1, order)
    /\ last' = "create_digraph"
    /\ iterations' =
           [iterations EXCEPT ![1] =
               LET f == filter_iterations(iterations[1])
               IN  IF f.exc = "" THEN f.ret ELSE @]
    /\ UNCHANGED <<DEBUG_STACK, scopes, failing, lifo, closed,
                   filterVars, graph, walk>>

\* d.create_digraph() for the recorder d = 1.
CreateDigraph(order) ==
    /\ digraph' = create_digraph(1, order)
    /\ last' = "create_digraph"
    /\ UNCHANGED <<DEBUG_STACK, iterations, scopes, failing, lifo, closed,
                   filterVars, graph, walk>>

NextDigraph == \E order \in HashOrders : CreateDigraph(order)

SpecDigraph == InitDigraph /\ [][NextDigraph]_vars

(***************************************************************************)
(* Properties of create_digraph, read off the document it returns.         *)
(***************************************************************************)
Returned == last = "create_digraph" /\ digraph.exc = ""

\* The lines of the returned document that start with a given word.
DocLines(word) ==
    {digraph.ret[k] : k \in {j \in 1..Len(digraph.ret) : digraph.ret[j][1] = word}}

\* The node an identifier of the document stands for.
NodeOfId(uid) == CHOOSE n \in Nodes \cup {None} : get_uuid(n, "") = uid

Canon(a, b) == IF id(a) > id(b) THEN <<a, b>> ELSE <<b, a>>

\* The passive edges and the canonicalized filtered-trace edges of the
\* document.
PassiveEdges == {<<NodeOfId(l[2]), NodeOfId(l[3])>> : l \in DocLines("arrowhead=none")}
TraceEdges == {Canon(NodeOfId(l[2]), NodeOfId(l[3])) : l \in DocLines("edge")}
DiagramNodes == {NodeOfId(l[2]) : l \in DocLines("node")}

\* The traversal from the source of the first filtered event.
Traversal ==
    collect_links(filter_iterations(iterations[1]).ret[1].src.node, "ascending")

\* C2: every call of create_digraph returns a document, whatever trace the
\* recorder holds.
C2_AlwaysReturnsDocument ==
    last = "create_digraph" =>
        /\ digraph.exc = ""
        /\ Len(digraph.ret) >= 3
        /\ SubSeq(digraph.ret, 1, 2) = Header

\* C9 as stated: the passive edges and the canonicalized filtered-trace
\* edges are disjoint, their union is the edge set of the traversal, and
\* every diagrammed node is in the traversal's node set.
C9_EdgePartition ==
    (Returned /\ iterations[1] # <<>>) =>
        LET found == Traversal
        IN  /\ PassiveEdges \cap TraceEdges = {}
            /\ PassiveEdges \cup TraceEdges = found.links
            /\ DiagramNodes \subseteq found.pass_nodes

\* C9 amended: the passive edges and the canonicalized filtered-trace
\* edges are disjoint, every passive edge is an edge of the traversal
\* between two nodes of its node set, and every edge of the traversal is a
\* passive edge or a canonicalized filtered-trace edge.
C9_PassiveIsTraversalMinusTrace ==
    (Returned /\ iterations[1] # <<>>) =>
        LET found == Traversal
            passive == PassiveEdges
            trace == TraceEdges
        IN  /\ passive \cap trace = {}
            /\ passive \subseteq found.links
            /\ found.links \subseteq passive \cup trace
            /\ \A q \in passive : {q[1], q[2]} \subseteq found.pass_nodes

\* A document with a passive edge and with a filtered-trace edge that is an
\* edge of the traversal.
C9_Witness ==
    /\ Returned
    /\ iterations[1] # <<>>
    /\ PassiveEdges # {}
    /\ TraceEdges \cap Traversal.links # {}

\* C10: a second call of create_digraph on the same trace and graph returns
\* the document the call before returned, whatever the order of set
\* iteration.
C10_SameDocumentAgain ==
    [][ (Returned /\ digraph'.exc = "") => digraph' = digraph ]_vars

(***************************************************************************)
(* Frame and the empty trace.                                              *)
(***************************************************************************)
\* C11: a call of create_digraph leaves the recorder's trace, the events
\* and their order, the scope stack and the graph's connections as they
\* were, whether it returns a document or raises.
C11_CreateDigraphChangesNothing ==
    [][ last' = "create_digraph" =>
            /\ iterations' = iterations
            /\ DEBUG_STACK' = DEBUG_STACK
            /\ graph' = graph ]_vars

\* A document was returned for a trace that the filter changes, over a
\* graph with a link, while the recorder's scope is open.
C11_Witness ==
    /\ Returned
    /\ DEBUG_STACK # <<>>
    /\ graph # {}
    /\ iterations[1] # <<>>
    /\ filter_iterations(iterations[1]).ret # iterations[1]

\* C12: for an empty trace create_digraph returns the header followed by
\* the closing brace: no edge statement, no node declaration, no cluster.
C12_EmptyTraceEmptyDocument ==
    (last = "create_digraph" /\ iterations[1] = <<>>) =>
        /\ digraph = Return(Header \o Footer)
        /\ DocLines("edge") \cup DocLines("arrowhead=none")
               \cup DocLines("node") \cup DocLines("subgraph") = {}

\* create_digraph has been called on a recorder without events.
C12_Witness ==
    /\ last = "create_digraph"
    /\ iterations[1] = <<>>
    /\ digraph.exc = ""

(***************************************************************************)
(* The two bridges of the filter, event by event.                          *)
(***************************************************************************)
\* The filtered list put together from what each event of items
\* contributes, part[k] being the contribution of items[k].
Concat(part) ==
    LET RECURSIVE upto(_)
        upto(k) == IF k = 0 THEN <<>> ELSE upto(k - 1) \o part[k]
    IN  upto(Len(items))

\* What the loop body appends for items[k].
Appended(k) == filter_window(around_generator(items)[k]).ret

HasNext(k) == k < Len(items)

\* The forward events: dropped without a source or with a Subspace at
\* either end; kept, and followed by the synthesized event, when they enter
\* an Output and the next event leaves a Subspace; kept alone otherwise.
ForwardBridge(k) ==
    LET current == items[k]
    IN  IF current.src.node = None \/ IsSubspaceEnd(current) THEN <<>>
        ELSE IF /\ isinstance(current.dst.node, "Output")
                /\ HasNext(k)
                /\ isinstance(items[k + 1].src.node, "Subspace")
        THEN <<current,
               [src |-> current.dst, dst |-> items[k + 1].dst,
                args |-> current.args, direction |-> Forward]>>
        ELSE <<current>>

\* C13: a forward event with a source that is not a Subspace, into an
\* Output, followed by an event whose source is a Subspace, is in the
\* filtered list unchanged and immediately followed by one synthesized
\* forward event from its destination to the next event's destination with
\* its args; every other forward event that is not dropped is there
\* unchanged and alone.
C13_ForwardBridge ==
    (last = "filter_iterations" /\ filtered.exc = "") =>
        filtered.ret =
            Concat([k \in 1..Len(items) |->
                       IF items[k].direction = Forward THEN ForwardBridge(k)
                       ELSE Appended(k)])

\* A trace was filtered in which a forward event into an Output is
\* followed by an event leaving a Subspace, and the filtered list holds the
\* event and the synthesized one.
C13_Witness ==
    /\ last = "filter_iterations"
    /\ filtered.exc = ""
    /\ Len(items) = 2
    /\ items[1].direction = Forward
    /\ items[1].src.node # None
    /\ isinstance(items[1].dst.node, "Output")
    /\ isinstance(items[2].src.node, "Subspace")
    /\ items[2].dst.node # items[1].src.node
    /\ Len(filtered.ret) = 2
    /\ filtered.ret[2].src = items[1].dst

\* The backward events the rewrite is about: with a source, into a
\* Subspace and followed by an event, replaced by one backward event from
\* their source to the next event's destination; from a Subspace to a node
\* that is not one, dropped.
BackwardBridge(k) ==
    LET current == items[k]
    IN  IF /\ current.src.node # None
           /\ isinstance(current.dst.node, "Subspace")
           /\ HasNext(k)
        THEN << [src |-> current.src, dst |-> items[k + 1].dst,
                 args |-> current.args, direction |-> Backward] >>
        ELSE IF /\ isinstance(current.src.node, "Subspace")
                /\ ~isinstance(current.dst.node, "Subspace")
        THEN <<>>
        ELSE Appended(k)

\* C14: a backward event with a source, into a Subspace and with a
\* following event, is replaced at its place in the filtered list by
\* exactly one backward event from its source to the next event's
\* destination with its args; a backward event from a Subspace to a node
\* that is not a Subspace is dropped.
C14_BackwardBridge ==
    (last = "filter_iterations" /\ filtered.exc = "") =>
        filtered.ret =
            Concat([k \in 1..Len(items) |->
                       IF items[k].direction = Backward THEN BackwardBridge(k)
                       ELSE Appended(k)])

\* A trace was filtered that starts with a backward event from a Subspace
\* into a Subspace and goes on with a backward event from a Subspace to
\* another node: the first is rewritten, the second dropped.
C14_Witness ==
    /\ last = "filter_iterations"
    /\ filtered.exc = ""
    /\ Len(items) = 2
    /\ items[1].direction = Backward
    /\ isinstance(items[1].src.node, "Subspace")
    /\ isinstance(items[1].dst.node, "Subspace")
    /\ items[2].direction = Backward
    /\ isinstance(items[2].src.node, "Subspace")
    /\ ~isinstance(items[2].dst.node, "Subspace")
    /\ Len(filtered.ret) = 1
    /\ filtered.ret[1].dst = items[2].dst

(***************************************************************************)
(* collect_links pass by pass: the while loop on every graph, from every   *)
(* start node, coming_nodes.pop() taking any node of the set.              *)
(***************************************************************************)
InitLinks ==
    /\ InitScopes
    /\ items = <<>>
    /\ filtered = Return(<<>>)
    /\ graph \in Graphs
    /\ digraph = Return(<<>>)
    /\ \E start_node \in Nodes :
           walk = [start |-> start_node, pass_nodes |-> {}, links |-> {},
                   coming_nodes |-> {start_node}, expanded |-> <<>>]

\* One pass of 'while coming_nodes:'.
CollectLinksPass ==
    /\ walk.coming_nodes # {}
    /\ \E current \in walk.coming_nodes :
           LET after == collect_links_body(walk.pass_nodes, walk.links,
                                           walk.coming_nodes, current)
           IN  walk' = [start |-> walk.start,
                        pass_nodes |-> after.pass_nodes,
                        links |-> after.links,
                        coming_nodes |-> after.coming_nodes,
                        expanded |-> Append(walk.expanded, current)]
    /\ last' = "collect_links"
    /\ UNCHANGED <<DEBUG_STACK, iterations, scopes, failing, lifo, closed,
                   filterVars, graph, digraph>>

NextLinks == CollectLinksPass

\* The loop goes on while coming_nodes is not empty.
SpecLinks == InitLinks /\ [][NextLinks]_vars /\ WF_vars(NextLinks)

\* The nodes linked to a node, by in_nodes or out_nodes.
Linked(node) == ToSet(in_nodes(node) \o out_nodes(node))

RECURSIVE Closure(_)
Closure(S) ==
    LET more == S \cup UNION {Linked(n) : n \in S}
    IN  IF more = S THEN S ELSE Closure(more)

\* The nodes reachable from the start node over in_nodes and out_nodes,
\* Subspace nodes included and passed through.
Reachable == Closure({walk.start})

Returns == walk.coming_nodes = {}

\* C15: collect_links returns on every graph, cycles included; no node is
\* taken from coming_nodes twice; and the node set returned is the set of
\* the nodes reachable from the start node over in_nodes and out_nodes,
\* through Subspace nodes too.
C15_DiscoveryTerminates ==
    /\ <>Returns
    /\ [](\A i, j \in 1..Len(walk.expanded) :
              walk.expanded[i] = walk.expanded[j] => i = j)
    /\ [](walk.pass_nodes = ToSet(walk.expanded))
    /\ [](walk.pass_nodes \cup walk.coming_nodes \subseteq Reachable)
    /\ [](Returns => walk.pass_nodes = Reachable)

\* The loop has returned on a graph with a cycle after passing through a
\* Subspace, and a node of the graph is not reachable.
C15_Witness ==
    /\ Returns
    /\ <<4, 3>> \in graph
    /\ <<3, 4>> \in graph
    /\ \E n \in walk.pass_nodes : isinstance(n, "Subspace")
    /\ Cardinality(walk.pass_nodes) >= 4
    /\ walk.pass_nodes # Nodes

\* The links between two distinct reachable nodes that are not Subspace
\* nodes, each as its canonical pair.
StaticLinks ==
    LET plain == {n \in Reachable : ~isinstance(n, "Subspace")}
    IN  {canonical(q[1], q[2]) :
            q \in {r \in plain \X plain : r[1] # r[2] /\ r[2] \in Linked(r[1])}}

\* C16: at every pass and at the end no recorded edge has a Subspace end
\* and no edge is recorded both ways; at the end the edge set is the full
\* one: the canonical pair of every link between two distinct reachable
\* nodes that are not Subspace nodes.
C16_CanonicalFullEdgeSet ==
    /\ \A q \in walk.links :
           /\ ~isinstance(q[1], "Subspace")
           /\ ~isinstance(q[2], "Subspace")
           /\ <<q[2], q[1]>> \notin walk.links
           /\ q \in StaticLinks
    /\ Returns => walk.links = StaticLinks

\* The loop has returned with two edges or more, having passed a Subspace.
C16_Witness ==
    /\ Returns
    /\ Cardinality(walk.links) >= 2
    /\ \E n \in walk.pass_nodes : isinstance(n, "Subspace")

(***************************************************************************)
(* The cluster blocks of the returned document.                            *)
(***************************************************************************)
RECURSIVE Memberships(_, _, _)
\* The member lines of the document from line k on, each with the cluster
\* blocks open around it, outermost first; open is the list of the blocks
\* open before line k.
Memberships(doc, k, open) ==
    IF k > Len(doc) THEN <<>>
    ELSE LET line == doc[k]
         IN  IF line[1] = "subgraph"
             THEN Memberships(doc, k + 1, Append(open, line[2]))
             ELSE IF line[1] = "}" /\ open # <<>>
             THEN Memberships(doc, k + 1, SubSeq(open, 1, Len(open) - 1))
             ELSE IF line[1] = "member"
             THEN <<[id |-> line[2], open |-> open]>>
                  \o Memberships(doc, k + 1, open)
             ELSE Memberships(doc, k + 1, open)

RECURSIVE RegionChain(_)
\* The regions around a node, the root region first, its own region last.
RegionChain(node) ==
    IF subspace(node) = None THEN <<>>
    ELSE Append(RegionChain(subspace(node)), subspace(node))

\* The identifiers of the cluster blocks of a list of regions.
ClusterIds(regions) ==
    [k \in 1..Len(regions) |-> get_uuid(regions[k], "cluster")]

\* C17: in a returned document every diagrammed node that has an enclosing
\* region is a member of exactly one cluster block, the block of its own
\* region, nested in the blocks of the regions around that region up to a
\* root region, also when a region around it has no diagrammed direct
\* member.
C17_ClusterCoverage ==
    (Returned /\ iterations[1] # <<>>) =>
        LET members == Memberships(digraph.ret, 1, <<>>)
        IN  \A n \in DiagramNodes :
                subspace(n) # None =>
                    /\ Cardinality({k \in 1..Len(members) :
                                       members[k].id = get_uuid(n, "")}) = 1
                    /\ \A k \in 1..Len(members) :
                           members[k].id = get_uuid(n, "") =>
                               members[k].open = ClusterIds(RegionChain(n))

(***************************************************************************)
(* The identifiers of the returned document.                               *)
(***************************************************************************)
\* The node identifiers the document uses: as an end of an edge statement,
\* of a traced or of a passive edge, as a member of a cluster block and in
\* a rank group.
UsedIds ==
    {l[2] : l \in DocLines("edge") \cup DocLines("arrowhead=none")
                      \cup DocLines("member")}
    \cup {l[3] : l \in DocLines("edge") \cup DocLines("arrowhead=none")}
    \cup UNION {ToSet(l[2]) : l \in DocLines("rank=same")}

\* The declarations of an identifier: the places of its node lines.
Declarations(uid) ==
    {k \in 1..Len(digraph.ret) :
        digraph.ret[k][1] = "node" /\ digraph.ret[k][2] = uid}

\* The nodes the document is about: the ends of the filtered events and of
\* the traversal's edges.
DocumentNodes ==
    LET f == filter_iterations(iterations[1]).ret
    IN  {f[k].src.node : k \in 1..Len(f)} \cup {f[k].dst.node : k \in 1..Len(f)}
            \cup UNION {{q[1], q[2]} : q \in Traversal.links}

\* C18: in a returned document every node identifier used as an end of an
\* edge statement, as a member of a cluster block or in a rank group has
\* exactly one node declaration, and two distinct nodes of the document
\* never have the same identifier.
C18_OneDeclarationPerIdentifier ==
    (Returned /\ iterations[1] # <<>>) =>
        /\ \A uid \in UsedIds : Cardinality(Declarations(uid)) = 1
        /\ \A a, b \in DocumentNodes :
               a # b => get_uuid(a, "") # get_uuid(b, "")
        /\ {get_uuid(n, "") : n \in DocumentNodes} = UsedIds

\* A document with a traced edge, a passive edge, a cluster member and a
\* rank group.
C18_Witness ==
    /\ Returned
    /\ DocLines("edge") # {}
    /\ DocLines("arrowhead=none") # {}
    /\ DocLines("member") # {}
    /\ DocLines("rank=same") # {}

(***************************************************************************)
(* The leveling of the regions.                                            *)
(***************************************************************************)
\* C19: collect_levels, started by write_subspaces at the Input member of
\* a region, returns for every region, also when the links of the members
\* form a directed cycle or two paths of different length between two
\* members, so create_digraph never ends with RecursionError; and the
\* nodes it puts in a level, those of the rank groups, are members of a
\* region.
C19_LevelingTerminates ==
    last = "create_digraph" =>
        /\ digraph.exc # "RecursionError"
        /\ Returned =>
               UNION {ToSet(l[2]) : l \in DocLines("rank=same")}
                   \subseteq {l[2] : l \in DocLines("member")}

====
